---- MODULE Spec2Model ----
(***************************************************************************)
(* Model of runner-agent/pty-wrapper.py: a relay that spawns a command on  *)
(* a pseudo-terminal, forwards stdin -> pty master and pty master ->       *)
(* stdout, and tears the session down in cleanup().                        *)
(*                                                                         *)
(* Program positions are named after the source line about to execute      *)
(* ("L72" = the select of line 72).  The main thread is at pc; every       *)
(* running invocation of cleanup() (called from the loop, or entered as    *)
(* the SIGTERM/SIGINT handler on top of whatever was running) is a frame   *)
(* of stack, the innermost last.  Python runs a signal handler between two *)
(* bytecodes of the main thread, so a handler interrupts at the boundary   *)
(* of two steps of this model, and the interrupted code resumes only when  *)
(* the handler returns or raises.                                          *)
(***************************************************************************)
EXTENDS Integers, Sequences, FiniteSets, TLC

\* ---------------------------------------------------------------- bounds
\* A run has at most MaxEvents events of the environment that can be
\* counted: signals delivered, bytes written to stdin, bytes a child writes
\* on its own.
MaxEvents == 2

\* ------------------------------------------------------ program constants
MasterChunk == 4096   \* os.read(master_fd, 4096)
StdinChunk  == 1024   \* os.read(sys.stdin.fileno(), 1024)

VARIABLES
  pc,            \* main thread: source line about to execute
  stack,         \* running cleanup() invocations, innermost last
  exitStatus,    \* -1 while the process lives, else its exit status
  errStream,     \* what the process printed on stderr
  hasCommand,    \* len(sys.argv) >= 2
  isTty,         \* stdin is a terminal
  termMode,      \* current attributes of the terminal on stdin
  old_settings,  \* saved attributes, "None" when not captured
  master_fd,     \* "none" | "open" | "closed"
  slave_fd,      \* "none" | "open" | "closed" (the parent's copy)
  handlers,      \* signal -> "default" | "cleanup"
  childState,    \* "none" | "running" | "zero" | "nonzero": the child's
                 \* returncode once it has ended (negative after a signal)
  childKind,     \* "none" | "echo" | "other"
  rlist,         \* result of the last select
  data,          \* chunk read and not yet written
  stdinBuf,      \* bytes pending on stdin
  nIn,           \* bytes written to stdin so far (they are 1..nIn)
  stdinEOF,      \* the writer of stdin has closed it
  ptyIn,         \* bytes written to the master, pending for the child
  ptyOut,        \* bytes written by the child, pending on the master
  nOut,          \* bytes a non-echo child has written on its own
  out,           \* bytes written to stdout so far
  stdoutStalled, \* the reader of stdout has stopped draining it
  nSignals,      \* signals delivered so far
  calls,         \* history: how often each cleanup step was executed
  faulted,       \* history: a system call of cleanup() failed on the
                 \* environment's account (not EBADF, not the wait's timeout)
  ioFault,       \* history: a call of the relay loop failed or wrote short
  sent,          \* history: bytes the writes of line 88 put into the master
  childWrote     \* history: bytes the child has written to the slave

vars == <<pc, stack, exitStatus, errStream, hasCommand, isTty, termMode,
          old_settings, master_fd, slave_fd, handlers, childState, childKind,
          rlist, data, stdinBuf, nIn, stdinEOF, ptyIn, ptyOut, nOut, out,
          stdoutStalled, nSignals, calls, faulted, ioFault, sent, childWrote>>

procVars == <<pc, stack, exitStatus, errStream, old_settings, master_fd,
              slave_fd, handlers, rlist, data>>
envVars  == <<hasCommand, isTty, stdinEOF, nIn, stdoutStalled, nSignals>>
chanVars == <<stdinBuf, ptyIn, ptyOut, nOut, out>>
histVars == <<calls, faulted, ioFault>>
logVars  == <<sent, childWrote>>

Signals   == {"SIGTERM", "SIGINT"}
Modes     == {"cooked", "raw"}
SetupPcs  == {"L16", "L26", "L31", "L34", "L44", "L66", "L67"}
LoopPcs   == {"L72", "L75", "L79", "L84", "L88", "L96"}
CallPcs   == {"L91", "L97", "L100"}
Steps     == {"close", "terminate", "kill", "restore"}

Min(a, b) == IF a < b THEN a ELSE b
Prefix(s, k) == SubSeq(s, 1, k)
Suffix(s, k) == SubSeq(s, k + 1, Len(s))

Events     == nSignals + nIn + nOut
Alive      == exitStatus < 0
Terminated == ~Alive
InCleanup  == Alive /\ stack # <<>>
Starting   == Alive /\ stack = <<>> /\ pc \in SetupPcs
Relaying   == Alive /\ stack = <<>> /\ pc \in LoopPcs
ChildGone  == childState \in {"zero", "nonzero"}

Init ==
  /\ pc = "L16"
  /\ stack = <<>>
  /\ exitStatus = -1
  /\ errStream = "none"
  /\ hasCommand \in BOOLEAN
  /\ isTty \in BOOLEAN
  /\ termMode = "cooked"
  /\ old_settings = "None"
  /\ master_fd = "none"
  /\ slave_fd = "none"
  /\ handlers = [s \in Signals |-> "default"]
  /\ childState = "none"
  /\ childKind = "none"
  /\ rlist = {}
  /\ data = <<>>
  /\ stdinBuf = <<>>
  /\ nIn = 0
  /\ stdinEOF = FALSE
  /\ ptyIn = <<>>
  /\ ptyOut = <<>>
  /\ nOut = 0
  /\ out = <<>>
  /\ stdoutStalled = FALSE
  /\ nSignals = 0
  /\ calls = [s \in Steps |-> 0]
  /\ faulted = FALSE
  /\ ioFault = FALSE
  /\ sent = <<>>
  /\ childWrote = <<>>

\* ------------------------------------------------------------ exceptions
\* Where a BaseException raised at position c of cleanup() is caught by
\* one of its bare "except:" clauses, the position execution continues at;
\* "up" when c is outside every try block and the exception leaves cleanup.
Handler(c) ==
  CASE c = "L48" -> "L52"
    [] c \in {"L52", "L53"} -> "L56"
    [] c = "L56" -> "L59"
    [] c = "L61" -> "L64"
    [] OTHER -> "up"

\* The stack after an exception is raised in its innermost frame: the frame
\* that catches it continues, the frames it leaves are gone; <<>> when no
\* frame of cleanup catches it and it reaches main().
RECURSIVE Propagate(_)
Propagate(s) ==
  IF s = <<>> THEN <<>>
  ELSE LET c == s[Len(s)]
           rest == SubSeq(s, 1, Len(s) - 1)
       IN IF Handler(c) # "up" THEN Append(rest, Handler(c))
          ELSE Propagate(rest)

Top == stack[Len(stack)]
SetTop(c) == [stack EXCEPT ![Len(stack)] = c]
Bump(step) == [calls EXCEPT ![step] = @ + 1]

MainStep == Alive /\ stack = <<>>

\* ----------------------------------------------------------------- setup
\* Unchanged parts, named once.
SetupFrame == UNCHANGED <<stack, handlers, rlist, data>>
NoIO == UNCHANGED <<envVars, chanVars, histVars, logVars, termMode>>

\* An uncaught exception leaves main(): the interpreter prints the
\* traceback and exits with status 1.
Uncaught ==
  /\ exitStatus' = 1
  /\ errStream' = "traceback"

\* Mutant of CheckArgs: the usage message without the sys.exit(1).
CheckArgs_NoExit ==
  /\ MainStep /\ pc = "L16"
  /\ pc' = "L26"
  /\ errStream' = IF hasCommand THEN errStream ELSE "usage"
  /\ UNCHANGED <<exitStatus, old_settings, master_fd, slave_fd, childState, childKind>>
  /\ SetupFrame /\ NoIO

\* Lines 16-21: the argument check.
CheckArgs ==
  /\ MainStep /\ pc = "L16"
  /\ IF hasCommand
       THEN pc' = "L26" /\ UNCHANGED <<exitStatus, errStream>>
       ELSE pc' = "L18" /\ exitStatus' = 1 /\ errStream' = "usage"
  /\ UNCHANGED <<old_settings, master_fd, slave_fd, childState, childKind>>
  /\ SetupFrame /\ NoIO

\* Mutant of SaveSettings: tcgetattr outside a try, its failure uncaught.
SaveSettings_NoTry ==
  /\ MainStep /\ pc = "L26"
  /\ IF isTty
       THEN /\ old_settings' = termMode /\ pc' = "L31"
            /\ UNCHANGED <<exitStatus, errStream>>
       ELSE /\ Uncaught
            /\ UNCHANGED <<pc, old_settings>>
  /\ UNCHANGED <<master_fd, slave_fd, childState, childKind>>
  /\ SetupFrame /\ NoIO

\* Lines 24-28: tcgetattr on stdin; any failure leaves old_settings None.
SaveSettings ==
  /\ MainStep /\ pc = "L26"
  /\ old_settings' = IF isTty THEN termMode ELSE "None"
  /\ pc' = "L31"
  /\ UNCHANGED <<exitStatus, errStream, master_fd, slave_fd, childState, childKind>>
  /\ SetupFrame /\ NoIO

\* Line 31: pty.openpty(); its failure is not caught.
OpenPty ==
  /\ MainStep /\ pc = "L31"
  /\ \E ok \in BOOLEAN :
       IF ok
         THEN /\ master_fd' = "open" /\ slave_fd' = "open" /\ pc' = "L34"
              /\ UNCHANGED <<exitStatus, errStream>>
         ELSE /\ Uncaught
              /\ UNCHANGED <<pc, master_fd, slave_fd>>
  /\ UNCHANGED <<old_settings, childState, childKind>>
  /\ SetupFrame /\ NoIO

\* Lines 34-42: subprocess.Popen; its failure is not caught either, and
\* nothing closes the two handles on that path.
Spawn ==
  /\ MainStep /\ pc = "L34"
  /\ \/ \E kind \in {"echo", "other"} :
          /\ childState' = "running" /\ childKind' = kind /\ pc' = "L44"
          /\ UNCHANGED <<exitStatus, errStream>>
     \/ /\ Uncaught
        /\ UNCHANGED <<pc, childState, childKind>>
  /\ UNCHANGED <<old_settings, master_fd, slave_fd>>
  /\ SetupFrame /\ NoIO

\* Mutant of CloseSlave: line 44 left out, the parent keeps the slave.
CloseSlave_Kept ==
  /\ MainStep /\ pc = "L44"
  /\ pc' = "L66"
  /\ UNCHANGED <<exitStatus, errStream, old_settings, master_fd, slave_fd,
                 childState, childKind>>
  /\ SetupFrame /\ NoIO

\* Line 44: os.close(slave_fd).
CloseSlave ==
  /\ MainStep /\ pc = "L44"
  /\ slave_fd' = "closed"
  /\ pc' = "L66"
  /\ UNCHANGED <<exitStatus, errStream, old_settings, master_fd, childState, childKind>>
  /\ SetupFrame /\ NoIO

\* Lines 66 and 67: signal.signal(SIGTERM, cleanup), signal.signal(SIGINT, cleanup).
InstallHandler ==
  /\ MainStep /\ pc \in {"L66", "L67"}
  /\ handlers' = [handlers EXCEPT ![IF pc = "L66" THEN "SIGTERM" ELSE "SIGINT"] = "cleanup"]
  /\ pc' = IF pc = "L66" THEN "L67" ELSE "L72"
  /\ UNCHANGED <<exitStatus, errStream, old_settings, master_fd, slave_fd,
                 childState, childKind, stack, rlist, data>>
  /\ NoIO

\* ------------------------------------------------------------ relay loop
\* cleanup() called from the loop: a new frame at its first line; the
\* caller waits at the line of the call.
CallCleanup(at) ==
  /\ pc' = at
  /\ stack' = <<"L48">>

\* select.select([master_fd, stdin], [], [], 0.1): the descriptors that are
\* readable now; a hung-up master and a stdin at end-of-stream are readable.
Ready ==
  (IF ptyOut # <<>> \/ ChildGone THEN {"master"} ELSE {})
    \cup (IF stdinBuf # <<>> \/ stdinEOF THEN {"stdin"} ELSE {})

LoopFrame == UNCHANGED <<exitStatus, errStream, old_settings, master_fd, slave_fd,
                         handlers, childState, childKind, envVars, termMode,
                         calls, faulted, childWrote>>

\* Mutant of Select: no "except Exception" around the loop, so that a
\* failing select ends the process with a traceback.
Select_Uncaught ==
  /\ MainStep /\ pc = "L72"
  /\ \/ /\ rlist' = Ready /\ pc' = "L75"
        /\ UNCHANGED <<exitStatus, errStream, ioFault>>
     \/ /\ Uncaught
        /\ ioFault' = TRUE
        /\ UNCHANGED <<pc, rlist>>
  /\ UNCHANGED <<stack, data, chanVars>>
  /\ UNCHANGED <<old_settings, master_fd, slave_fd, handlers, childState, childKind,
                 envVars, termMode, calls, faulted, logVars>>

\* Mutant of Select: the exit check of line 96 made at the top of the
\* iteration, before the forwarding.
Select_PollFirst ==
  /\ MainStep /\ pc = "L72"
  /\ IF ChildGone
       THEN CallCleanup("L97") /\ UNCHANGED <<rlist, ioFault>>
       ELSE \/ /\ rlist' = Ready /\ pc' = "L75"
               /\ UNCHANGED <<stack, ioFault>>
            \/ /\ CallCleanup("L100")
               /\ ioFault' = TRUE
               /\ UNCHANGED rlist
  /\ UNCHANGED <<data, chanVars, sent>>
  /\ LoopFrame

\* Line 72; an exception of select is outside the inner try blocks and is
\* caught at line 99, which calls cleanup().
Select ==
  /\ MainStep /\ pc = "L72"
  /\ \/ /\ rlist' = Ready /\ pc' = "L75"
        /\ UNCHANGED <<stack, ioFault>>
     \/ /\ CallCleanup("L100")
        /\ ioFault' = TRUE
        /\ UNCHANGED rlist
  /\ UNCHANGED <<data, chanVars, sent>>
  /\ LoopFrame

\* What os.write makes of a chunk: all of it, a shorter prefix (the count
\* os.write returns is dropped by the caller), or nothing with OSError.
Accepted(d) == {Prefix(d, k) : k \in 0..Len(d)}

\* Lines 75-78 and 80-81: the read of the master.
ReadMaster ==
  /\ MainStep /\ pc = "L75"
  /\ IF "master" \notin rlist
       THEN pc' = "L84" /\ UNCHANGED <<data, ptyOut, ioFault>>
       ELSE \/ \E k \in 1..Min(Len(ptyOut), MasterChunk) :
                 /\ data' = Prefix(ptyOut, k)
                 /\ ptyOut' = Suffix(ptyOut, k)
                 /\ pc' = "L79"
                 /\ UNCHANGED ioFault
            \/ \* OSError (EIO after the child has gone), or b""
               /\ pc' = "L84"
               /\ ioFault' = (ioFault \/ ptyOut # <<>>)
               /\ UNCHANGED <<data, ptyOut>>
  /\ UNCHANGED <<stack, rlist, stdinBuf, ptyIn, nOut, out, sent>>
  /\ LoopFrame

\* Line 79: os.write(stdout, data), a blocking write.
WriteStdout ==
  /\ MainStep /\ pc = "L79"
  /\ ~stdoutStalled
  /\ \E w \in Accepted(data) :
       /\ out' = out \o w
       /\ ioFault' = (ioFault \/ w # data)
  /\ data' = <<>>
  /\ pc' = "L84"
  /\ UNCHANGED <<stack, rlist, stdinBuf, ptyIn, ptyOut, nOut, sent>>
  /\ LoopFrame

\* Mutant of ReadStdin: no else branch, zero bytes read are passed over.
ReadStdin_IgnoreEof ==
  /\ MainStep /\ pc = "L84"
  /\ IF "stdin" \notin rlist \/ stdinBuf = <<>>
       THEN pc' = "L96" /\ UNCHANGED <<data, stdinBuf, ioFault>>
       ELSE \/ \E k \in 1..Min(Len(stdinBuf), StdinChunk) :
                 /\ data' = Prefix(stdinBuf, k)
                 /\ stdinBuf' = Suffix(stdinBuf, k)
                 /\ pc' = "L88"
                 /\ UNCHANGED ioFault
            \/ /\ pc' = "L96"
               /\ ioFault' = TRUE
               /\ UNCHANGED <<data, stdinBuf>>
  /\ rlist' = {}
  /\ UNCHANGED <<stack, ptyIn, ptyOut, nOut, out, sent>>
  /\ LoopFrame

\* Lines 84-87 and 89-93: the read of stdin; zero bytes call cleanup().
ReadStdin ==
  /\ MainStep /\ pc = "L84"
  /\ IF "stdin" \notin rlist
       THEN pc' = "L96" /\ UNCHANGED <<stack, data, stdinBuf, ioFault>>
       ELSE IF stdinBuf # <<>>
         THEN \/ \E k \in 1..Min(Len(stdinBuf), StdinChunk) :
                   /\ data' = Prefix(stdinBuf, k)
                   /\ stdinBuf' = Suffix(stdinBuf, k)
                   /\ pc' = "L88"
                   /\ UNCHANGED <<stack, ioFault>>
              \/ /\ pc' = "L96"
                 /\ ioFault' = TRUE
                 /\ UNCHANGED <<stack, data, stdinBuf>>
         ELSE /\ CallCleanup("L91")
              /\ UNCHANGED <<data, stdinBuf, ioFault>>
  /\ rlist' = {}
  /\ UNCHANGED <<ptyIn, ptyOut, nOut, out, sent>>
  /\ LoopFrame

\* Line 88: os.write(master_fd, data).
WriteMaster ==
  /\ MainStep /\ pc = "L88"
  /\ \E w \in Accepted(data) :
       /\ ptyIn' = IF childState = "running" THEN ptyIn \o w ELSE ptyIn
       /\ sent' = sent \o w
       /\ ioFault' = (ioFault \/ w # data)
  /\ data' = <<>>
  /\ pc' = "L96"
  /\ UNCHANGED <<stack, rlist, stdinBuf, ptyOut, nOut, out>>
  /\ LoopFrame

\* Lines 96-97: proc.poll().
PollChild ==
  /\ MainStep /\ pc = "L96"
  /\ IF ChildGone
       THEN CallCleanup("L97")
       ELSE pc' = "L72" /\ UNCHANGED stack
  /\ UNCHANGED <<rlist, data, chanVars, ioFault, sent>>
  /\ LoopFrame

\* --------------------------------------------------------------- cleanup
\* One step of the innermost running cleanup().
CleanupStep(at) == Alive /\ stack # <<>> /\ Top = at
PtyKept == UNCHANGED <<ptyIn, ptyOut>>

CleanupFrame == UNCHANGED <<pc, errStream, old_settings, slave_fd, handlers,
                            childKind, rlist, data, envVars, stdinBuf, nOut, out,
                            ioFault, logVars>>

\* Lines 47-50: os.close(master_fd) under a bare except.  A second close of
\* the released handle raises EBADF; a close that raises for another reason
\* may or may not have released the handle.  Releasing the master drops
\* what was pending in the pseudo-terminal in both directions.
CloseMaster ==
  /\ CleanupStep("L48")
  /\ calls' = Bump("close")
  /\ IF master_fd = "open"
       THEN \/ master_fd' = "closed" /\ UNCHANGED faulted
            \/ master_fd' \in {"open", "closed"} /\ faulted' = TRUE
       ELSE UNCHANGED <<master_fd, faulted>>
  /\ IF master_fd' = "closed"
       THEN ptyIn' = <<>> /\ ptyOut' = <<>>
       ELSE UNCHANGED <<ptyIn, ptyOut>>
  /\ stack' = SetTop("L52")
  /\ UNCHANGED <<exitStatus, childState, termMode>>
  /\ CleanupFrame

\* Line 52: proc.terminate().  Popen.send_signal polls first and sends
\* nothing to a child that has exited; a child that gets SIGTERM dies of it
\* or survives it; os.kill may raise (EPERM), which line 54 catches.
TerminateChild ==
  /\ CleanupStep("L52")
  /\ calls' = Bump("terminate")
  /\ IF childState = "running"
       THEN \/ /\ childState' \in {"nonzero", "running"}
               /\ stack' = SetTop("L53")
               /\ UNCHANGED faulted
            \/ /\ faulted' = TRUE
               /\ stack' = SetTop("L56")
               /\ UNCHANGED childState
       ELSE /\ stack' = SetTop("L53")
            /\ UNCHANGED <<childState, faulted>>
  /\ UNCHANGED <<exitStatus, master_fd, termMode>>
  /\ CleanupFrame /\ PtyKept

\* Line 53: proc.wait(timeout=1); TimeoutExpired is caught by line 54.
WaitChild ==
  /\ CleanupStep("L53")
  /\ stack' = SetTop(IF ChildGone THEN "L59" ELSE "L56")
  /\ UNCHANGED <<exitStatus, master_fd, childState, termMode, calls, faulted>>
  /\ CleanupFrame /\ PtyKept

\* Mutant of KillChild: the except clause of line 54 passes, with no kill.
KillChild_Pass ==
  /\ CleanupStep("L56")
  /\ stack' = SetTop("L59")
  /\ UNCHANGED <<exitStatus, master_fd, termMode, childState, calls, faulted>>
  /\ CleanupFrame /\ PtyKept

\* Lines 55-58: proc.kill() under a bare except.
KillChild ==
  /\ CleanupStep("L56")
  /\ calls' = Bump("kill")
  /\ IF childState = "running"
       THEN \/ childState' = "nonzero" /\ UNCHANGED faulted
            \/ faulted' = TRUE /\ UNCHANGED childState
       ELSE UNCHANGED <<childState, faulted>>
  /\ stack' = SetTop("L59")
  /\ UNCHANGED <<exitStatus, master_fd, termMode>>
  /\ CleanupFrame /\ PtyKept

\* Mutant of CheckSettings: cleanup without the restore of lines 59-63.
CheckSettings_NoRestore ==
  /\ CleanupStep("L59")
  /\ stack' = SetTop("L64")
  /\ UNCHANGED <<exitStatus, master_fd, childState, termMode, calls, faulted>>
  /\ CleanupFrame /\ PtyKept

\* Line 59: "if old_settings:", outside every try block.
CheckSettings ==
  /\ CleanupStep("L59")
  /\ stack' = SetTop(IF old_settings # "None" THEN "L61" ELSE "L64")
  /\ UNCHANGED <<exitStatus, master_fd, childState, termMode, calls, faulted>>
  /\ CleanupFrame /\ PtyKept

\* Lines 60-63: tcsetattr(stdin, TCSADRAIN, old_settings) under a bare except.
RestoreSettings ==
  /\ CleanupStep("L61")
  /\ calls' = Bump("restore")
  /\ \/ termMode' = old_settings /\ UNCHANGED faulted
     \/ faulted' = TRUE /\ UNCHANGED termMode
  /\ stack' = SetTop("L64")
  /\ UNCHANGED <<exitStatus, master_fd, childState>>
  /\ CleanupFrame /\ PtyKept

\* Line 64: sys.exit(0) raises SystemExit.  Raised by a handler, it
\* continues in the code the handler interrupted: an interrupted cleanup()
\* catches it in its bare except; main() catches only OSError (lines 80,
\* 92) and Exception (line 99), so there it ends the process with status 0.
ExitCleanup ==
  /\ CleanupStep("L64")
  /\ stack' = Propagate(stack)
  /\ exitStatus' = IF stack' = <<>> THEN 0 ELSE exitStatus
  /\ UNCHANGED <<master_fd, childState, termMode, calls, faulted>>
  /\ CleanupFrame /\ PtyKept

\* ---------------------------------------------------------------- signals
\* SIGTERM or SIGINT reaches the process.  With cleanup installed the
\* handler starts on top of what was running.  The default action of
\* SIGTERM ends the process at once; the default handler of SIGINT raises
\* KeyboardInterrupt, which the bare excepts (line 27, and those of a
\* running cleanup) catch and nothing else does.
Deliver(sig) ==
  /\ Alive
  /\ Events < MaxEvents
  /\ nSignals' = nSignals + 1
  /\ IF handlers[sig] = "cleanup"
       THEN /\ stack' = Append(stack, "L48")
            /\ UNCHANGED <<pc, exitStatus, errStream>>
       ELSE /\ IF sig = "SIGTERM"
                 THEN exitStatus' = 143 /\ UNCHANGED <<pc, stack, errStream>>
                 ELSE /\ stack' = Propagate(stack)
                      /\ IF stack # <<>> /\ stack' # <<>>
                           THEN UNCHANGED <<pc, exitStatus, errStream>>
                           ELSE IF pc = "L26" /\ stack = <<>>
                             THEN pc' = "L31" /\ UNCHANGED <<exitStatus, errStream>>
                             ELSE /\ exitStatus' = 130
                                  /\ errStream' = "traceback"
                                  /\ UNCHANGED pc
  /\ UNCHANGED <<old_settings, master_fd, slave_fd, handlers, childState, childKind,
                 rlist, data, hasCommand, isTty, stdinEOF, nIn, stdoutStalled,
                 chanVars, termMode, calls, faulted, ioFault, logVars>>

Signal == \E sig \in Signals : Deliver(sig)

\* ------------------------------------------------------------ environment
EnvFrame == UNCHANGED <<procVars, histVars, hasCommand, isTty, nSignals, sent>>

\* Traffic on the streams matters to the program while it can still relay
\* it: the stream actions are taken up to the start of cleanup().
Streaming == Alive /\ hasCommand /\ stack = <<>>

\* The invoking side writes the next byte to stdin, or closes it.
WriteStdin ==
  /\ Streaming /\ ~stdinEOF /\ Events < MaxEvents
  /\ nIn' = nIn + 1
  /\ stdinBuf' = Append(stdinBuf, nIn + 1)
  /\ UNCHANGED <<stdinEOF, stdoutStalled, ptyIn, ptyOut, nOut, out,
                 childState, childKind, termMode, childWrote>>
  /\ EnvFrame

CloseStdin ==
  /\ Streaming /\ ~stdinEOF
  /\ stdinEOF' = TRUE
  /\ UNCHANGED <<nIn, stdoutStalled, chanVars, childState, childKind, termMode,
                 childWrote>>
  /\ EnvFrame

\* The reader of stdout stops draining it, or resumes.  Only the write of
\* line 79 can tell, so the change is taken where that write is next.
StallStdout ==
  /\ Alive /\ pc = "L79"
  /\ stdoutStalled' = ~stdoutStalled
  /\ UNCHANGED <<nIn, stdinEOF, chanVars, childState, childKind, termMode,
                 childWrote>>
  /\ EnvFrame

ChildRuns == Alive /\ childState = "running"

\* The child on the slave side: an echo child copies its input to its
\* output; another child consumes input, writes bytes of its own (-1, -2,
\* ...) and exits when it likes.  The hang-up of a closed master makes an
\* echo child exit.
ChildEcho ==
  /\ ChildRuns /\ Streaming /\ childKind = "echo" /\ ptyIn # <<>>
  /\ ptyOut' = Append(ptyOut, Head(ptyIn))
  /\ childWrote' = Append(childWrote, Head(ptyIn))
  /\ ptyIn' = Tail(ptyIn)
  /\ UNCHANGED <<stdinBuf, nOut, out, nIn, stdinEOF, stdoutStalled,
                 childState, childKind, termMode>>
  /\ EnvFrame

ChildConsume ==
  /\ ChildRuns /\ Streaming /\ childKind = "other" /\ ptyIn # <<>>
  /\ ptyIn' = Tail(ptyIn)
  /\ UNCHANGED <<stdinBuf, ptyOut, nOut, out, nIn, stdinEOF, stdoutStalled,
                 childState, childKind, termMode, childWrote>>
  /\ EnvFrame

ChildEmit ==
  /\ ChildRuns /\ Streaming /\ childKind = "other" /\ Events < MaxEvents
  /\ nOut' = nOut + 1
  /\ ptyOut' = Append(ptyOut, -(nOut + 1))
  /\ childWrote' = Append(childWrote, -(nOut + 1))
  /\ UNCHANGED <<stdinBuf, ptyIn, out, nIn, stdinEOF, stdoutStalled,
                 childState, childKind, termMode>>
  /\ EnvFrame

ChildExit ==
  /\ ChildRuns /\ (childKind = "other" \/ master_fd # "open")
  /\ childState' \in {"zero", "nonzero"}
  /\ ptyIn' = <<>>
  /\ UNCHANGED <<stdinBuf, ptyOut, nOut, out, nIn, stdinEOF, stdoutStalled,
                 childKind, termMode, childWrote>>
  /\ EnvFrame

\* The terminal on stdin changes mode while the child runs.
AlterTerminal ==
  /\ ChildRuns /\ isTty
  /\ termMode' \in Modes \ {termMode}
  /\ UNCHANGED <<nIn, stdinEOF, stdoutStalled, chanVars, childState, childKind,
                 childWrote>>
  /\ EnvFrame

\* ---------------------------------------------------------- specification
ProcStep ==
  \/ CheckArgs \/ SaveSettings \/ OpenPty \/ Spawn \/ CloseSlave \/ InstallHandler
  \/ Select \/ ReadMaster \/ WriteStdout \/ ReadStdin \/ WriteMaster \/ PollChild
  \/ CloseMaster \/ TerminateChild \/ WaitChild \/ KillChild
  \/ CheckSettings \/ RestoreSettings
  \/ ExitCleanup

EnvStep ==
  \/ Signal
  \/ WriteStdin \/ CloseStdin \/ StallStdout
  \/ ChildEcho \/ ChildConsume \/ ChildEmit \/ ChildExit
  \/ AlterTerminal

Next == ProcStep \/ EnvStep

Spec == Init /\ [][Next]_vars

\* The interpreter keeps running the program: a step of the process that
\* is possible is eventually taken.  Nothing is assumed of the environment.
FairSpec == Spec /\ WF_vars(ProcStep)

TypeOK ==
  /\ pc \in SetupPcs \cup LoopPcs \cup CallPcs \cup {"L18"}
  /\ stack \in Seq({"L48", "L52", "L53", "L56", "L59", "L61", "L64"})
  /\ exitStatus \in {-1, 0, 1, 130, 143}
  /\ errStream \in {"none", "usage", "traceback"}
  /\ termMode \in Modes
  /\ old_settings \in Modes \cup {"None"}
  /\ master_fd \in {"none", "open", "closed"}
  /\ slave_fd \in {"none", "open", "closed"}
  /\ childState \in {"none", "running", "zero", "nonzero"}
  /\ rlist \subseteq {"master", "stdin"}
  /\ faulted \in BOOLEAN
  /\ ioFault \in BOOLEAN

\* ================================================================ claims
InputSoFar == [i \in 1..nIn |-> i]
Captured   == old_settings # "None"

\* C1: shutdown is idempotent: however often cleanup() is invoked, in
\* sequence or by a handler interrupting a cleanup in progress, the master
\* is closed once, the child is asked to terminate once and the saved
\* attributes are restored once.
C1_CleanupWorksOnce ==
  pc \in LoopPcs \cup CallPcs =>
     /\ calls["close"] <= 1
     /\ calls["terminate"] <= 1
     /\ calls["restore"] <= 1

\* C2: when the mode of stdin was captured at startup, the terminal is in
\* that mode when the process has terminated, on every exit path.
C2_RestoredOnEveryExit ==
  (Terminated /\ Captured) => termMode = old_settings

C4_ChildExitDetected ==
  (Relaying /\ ChildGone) ~> (Terminated /\ exitStatus = 0)

\* C5: a read of zero bytes from stdin starts cleanup in the same
\* iteration, before the exit check, with nothing written to the master or
\* to stdout for it, and the process then terminates with status 0.
EofRead ==
  /\ MainStep /\ pc = "L84" /\ "stdin" \in rlist /\ stdinBuf = <<>>
  /\ pc' # pc

C5_EofShutsDown ==
  /\ [][EofRead => /\ pc' = "L91" /\ stack' = <<"L48">>
                   /\ ptyIn' = ptyIn /\ out' = out]_vars
  /\ (pc = "L91") ~> (Terminated /\ exitStatus = 0)

C5_Witness == pc = "L91" /\ Terminated /\ exitStatus = 0 /\ nSignals >= 1

\* C6: with an echoing child, every byte written to the relay's stdin has
\* come out on its stdout, in order, by the time the relay has ended (here:
\* ended on its own account, with no signal and no failing call).
C6_EchoDelivered ==
  (Terminated /\ exitStatus = 0 /\ childKind = "echo" /\ nSignals = 0
     /\ ~ioFault /\ ~faulted /\ stdinBuf = <<>>)
    => out = InputSoFar

\* C7: without a command argument the program prints the usage message and
\* exits with status 1, having captured no attributes, allocated no
\* pseudo-terminal, spawned no child and installed no handler.
C7_UsageBeforeResources ==
  ~hasCommand =>
     /\ pc \in {"L16", "L18"}
     /\ pc = "L18" => (exitStatus = 1 /\ errStream = "usage")
     /\ old_settings = "None"
     /\ master_fd = "none" /\ slave_fd = "none"
     /\ childState = "none"
     /\ \A sig \in Signals : handlers[sig] = "default"

C7_Witness == ~hasCommand /\ pc = "L18" /\ exitStatus = 1 /\ errStream = "usage"

\* C8: when the spawn fails after the pair was allocated, the program has
\* released the master and the slave by the time it has aborted.
C8_SpawnFailureReleases ==
  (Terminated /\ pc = "L34" /\ exitStatus = 1) =>
     (master_fd = "closed" /\ slave_fd = "closed")

\* C9: the relay loop is left only through cleanup: a step taken while
\* relaying leaves the process alive and either still in the loop or in
\* cleanup() called from it, and a process that terminated out of the loop
\* terminated by cleanup's exit, after cleanup closed the master.
C9_LoopLeftOnlyThroughCleanup ==
  /\ [][Relaying => /\ Alive'
                    /\ \/ pc' \in LoopPcs
                       \/ pc' \in CallPcs /\ stack' = <<"L48">>]_vars
  /\ []((Terminated /\ pc \in LoopPcs \cup CallPcs) =>
          (exitStatus = 0 /\ calls["close"] >= 1))

\* A failed select was turned into the shutdown transition.
C9_Witness == Terminated /\ pc = "L100" /\ exitStatus = 0

\* C10: once cleanup has been entered the process ends with exit status 0,
\* whatever signals arrive during cleanup.
C10_ShutdownExitsZero ==
  (Terminated /\ calls["close"] >= 1) => exitStatus = 0

\* The innermost cleanup() takes a step of its own from line at to line to
\* (no signal is delivered in the step and the frame stays).
Stepped(at, to) ==
  /\ CleanupStep(at)
  /\ nSignals' = nSignals
  /\ Len(stack') = Len(stack)
  /\ stack'[Len(stack)] = to

FrameSteps == stack # <<>> /\ nSignals' = nSignals /\ stack' # stack

\* C11: the steps of cleanup are independently best-effort: whichever of
\* them fail, the step after each one is attempted next: after the close
\* the request to terminate, after the request the wait, after the wait
\* the kill (unless the child is gone), after the kill the restore when
\* attributes were captured.
C11_EveryLaterStepAttempted ==
  [][FrameSteps =>
       /\ CleanupStep("L48") => Stepped("L48", "L52")
       /\ CleanupStep("L52") => Stepped("L52", "L53")
       /\ CleanupStep("L53") => Stepped("L53", IF ChildGone THEN "L59" ELSE "L56")
       /\ CleanupStep("L56") => Stepped("L56", "L59")
       /\ CleanupStep("L59") => Stepped("L59", IF Captured THEN "L61" ELSE "L64")
       /\ CleanupStep("L61") => Stepped("L61", "L64")]_vars

\* C11 as amended: the same, except that a failing request to terminate
\* skips the wait and goes to the kill at once; every step taken is
\* counted as attempted, and a session that was shut down out of the relay
\* loop with attributes captured has had the restore attempted, also with
\* the master left open and the child left running by failing calls.
C11_LaterStepsAttemptedButWait ==
  /\ [][FrameSteps =>
          /\ CleanupStep("L48") =>
                Stepped("L48", "L52") /\ calls' = Bump("close")
          /\ CleanupStep("L52") =>
                /\ calls' = Bump("terminate")
                /\ \/ Stepped("L52", "L53")
                   \/ /\ Stepped("L52", "L56")
                      /\ faulted' /\ childState = "running" /\ childState' = "running"
          /\ CleanupStep("L53") =>
                Stepped("L53", IF ChildGone THEN "L59" ELSE "L56")
          /\ CleanupStep("L56") =>
                Stepped("L56", "L59") /\ calls' = Bump("kill")
          /\ CleanupStep("L59") =>
                Stepped("L59", IF Captured THEN "L61" ELSE "L64")
          /\ CleanupStep("L61") =>
                Stepped("L61", "L64") /\ calls' = Bump("restore")]_vars
  /\ []((Terminated /\ pc \in LoopPcs \cup CallPcs) =>
          /\ calls["close"] >= 1 /\ calls["terminate"] >= 1
          /\ (childState = "running" => calls["kill"] >= 1)
          /\ (Captured => calls["restore"] >= 1))

\* cleanup called from the loop ended with the master still open and the
\* child still running after the kill, and the restore was done all the same.
C11_Witness ==
  /\ Terminated /\ pc \in CallPcs /\ nSignals = 0 /\ faulted
  /\ master_fd = "open" /\ childState = "running" /\ calls["kill"] = 1
  /\ Captured /\ calls["restore"] = 1 /\ termMode = old_settings

\* C12: at most one child is spawned in an invocation (a child appears
\* only at line 34, where there is none yet, and it stays the same child),
\* and the parent's copy of the slave is closed in every state of the relay
\* loop, in every state in which cleanup runs and in every state in which
\* a handler is installed.
C12_OneChildSlaveClosed ==
  /\ [][childState' # childState /\ childState' = "running" =>
          childState = "none" /\ pc = "L34"]_vars
  /\ [][childKind # "none" => childKind' = childKind]_vars
  /\ [](pc = "L34" => childState = "none")
  /\ []((pc \in LoopPcs \cup CallPcs \/ stack # <<>>
            \/ \E sig \in Signals : handlers[sig] = "cleanup")
          => slave_fd = "closed")

\* The relay loop runs with its one child alive and the slave closed.
C12_Witness ==
  Relaying /\ pc = "L96" /\ childState = "running" /\ slave_fd = "closed"

IsPrefix(a, b) == Len(a) <= Len(b) /\ a = Prefix(b, Len(a))

\* The bytes the reads of line 86 have taken from stdin so far.
StdinRead == Prefix(InputSoFar, nIn - Len(stdinBuf))

\* C13: what has been written to stdout is a prefix of what the child has
\* written to the pseudo-terminal, and what has been written to the master
\* is a prefix of what has been read from stdin: no byte of a stream is
\* dropped, duplicated or reordered, also when a write is short or fails.
C13_VerbatimFifo ==
  /\ IsPrefix(out, childWrote)
  /\ IsPrefix(sent, StdinRead)

\* C14: no step of the loop blocks for good: an iteration that starts at
\* the select of line 72 reaches the exit check of line 96 or ends in
\* cleanup (or in the end of the process), whatever the reader of stdout
\* and the child do.
C14_IterationReachesExitCheck ==
  (Relaying /\ pc = "L72") ~> (pc = "L96" \/ InCleanup \/ Terminated)

\* cleanup has run to its exit.
ShutdownDone == Terminated /\ exitStatus = 0 /\ calls["close"] >= 1

\* The innermost cleanup() arrives at the forced kill of line 56.
ComesToKill ==
  /\ stack # <<>> /\ Top # "L56"
  /\ Len(stack') = Len(stack) /\ stack'[Len(stack)] = "L56"

\* C15: in every shutdown the forced kill comes only after the request to
\* terminate gracefully; cleanup goes to the kill if and only if the child
\* is still alive when the wait of line 53 ends; and a shutdown that has
\* completed leaves a child that has exited or has been sent the kill.
C15_GracefulThenForced ==
  /\ [](calls["kill"] >= 1 => calls["terminate"] >= 1)
  /\ [][ComesToKill => CleanupStep("L53") /\ ~ChildGone]_vars
  /\ [][FrameSteps /\ CleanupStep("L53") /\ ~ChildGone => ComesToKill]_vars
  /\ [](ShutdownDone => (ChildGone \/ calls["kill"] >= 1))

\* The order of the statements of one iteration: select, output
\* forwarding (75-79), input forwarding (84-91), exit check (96-97).
LoopOrder ==
  { <<"L72", "L75">>, <<"L72", "L100">>,
    <<"L75", "L79">>, <<"L75", "L84">>, <<"L79", "L84">>,
    <<"L84", "L88">>, <<"L84", "L91">>, <<"L84", "L96">>, <<"L88", "L96">>,
    <<"L96", "L97">>, <<"L96", "L72">> }

MainMoves == MainStep /\ pc' # pc

\* C16: an iteration handles output forwarding, then input forwarding,
\* then the exit check: the main thread moves along that order only; with
\* the master readable the read of line 77 comes first and the chunk it
\* returns is passed to the write on stdout before anything else, cleanup
\* included, so that cleanup called for end-of-stream or child exit finds
\* no chunk read and unwritten; and after cleanup was called for
\* end-of-stream the main thread never moves again, to the exit check or
\* anywhere.
C16_FixedOrder ==
  /\ [][MainMoves /\ pc \in LoopPcs => <<pc, pc'>> \in LoopOrder]_vars
  /\ [][MainMoves /\ pc = "L75" /\ "master" \in rlist /\ ptyOut # <<>> =>
          \/ pc' = "L79" /\ data' # <<>> /\ IsPrefix(data', ptyOut) /\ stack' = <<>>
          \/ pc' = "L84" /\ ioFault' /\ stack' = <<>>]_vars
  /\ [][MainMoves /\ pc = "L79" =>
          /\ pc' = "L84" /\ stack' = <<>>
          /\ \E w \in Accepted(data) : out' = out \o w]_vars
  /\ [](pc \in {"L91", "L97"} => data = <<>>)
  /\ [][(pc \in CallPcs) => (pc' = pc)]_vars

\* The select of an iteration found both the master readable (the running
\* child's one byte) and stdin at end-of-stream; the byte is on stdout and
\* the zero-byte read that calls cleanup comes next.
C16_Witness ==
  /\ Relaying /\ pc = "L84" /\ rlist = {"master", "stdin"}
  /\ stdinEOF /\ stdinBuf = <<>> /\ childState = "running"
  /\ Len(childWrote) = 1 /\ out = childWrote

\* C17: a failing capture of the terminal attributes is not fatal: the
\* statement of line 26 leaves the process alive at line 31, with
\* old_settings None when stdin is not a terminal; a restore is attempted
\* only with attributes captured, line 59 goes to the restore exactly when
\* they were, and a session shut down out of the relay loop has had the
\* restore attempted if and only if they were captured.
C17_CaptureFailureNonFatal ==
  /\ [][MainStep /\ pc = "L26" /\ nSignals' = nSignals
            /\ <<pc, exitStatus>>' # <<pc, exitStatus>> =>
          /\ Alive' /\ pc' = "L31" /\ errStream' = errStream
          /\ old_settings' = IF isTty THEN termMode ELSE "None"]_vars
  /\ [](~isTty => ~Captured)
  /\ [](calls["restore"] >= 1 => Captured)
  /\ [][FrameSteps /\ CleanupStep("L59") =>
          Stepped("L59", IF Captured THEN "L61" ELSE "L64")]_vars
  /\ []((Terminated /\ pc \in LoopPcs \cup CallPcs) =>
          (calls["restore"] >= 1 <=> Captured))

\* Without a terminal on stdin the session relayed a byte of the child
\* and was shut down with exit status 0 and no restore attempt.
C17_Witness ==
  /\ ~isTty /\ ~Captured /\ ShutdownDone /\ pc \in CallPcs
  /\ out # <<>> /\ calls["restore"] = 0

ChildExists == childState # "none"

\* C18: in every state in which the child has been spawned and the process
\* lives, SIGTERM and SIGINT are both routed to cleanup.
C18_SignalsRoutedToCleanup ==
  (Alive /\ ChildExists) => \A sig \in Signals : handlers[sig] = "cleanup"

\* C19: once cleanup has closed the master nothing uses the handle again:
\* no statement of main runs (no select, read or write on it) and os.close
\* is not called on it a second time; and main never resumes once cleanup
\* has been entered.
C19_NoUseOfReleasedHandle ==
  /\ [][(master_fd = "closed") => (calls'["close"] = calls["close"])]_vars
  /\ [][(master_fd = "closed" \/ stack # <<>>) => (pc' = pc)]_vars

\* C20: when cleanup called for the exit of the child has closed the
\* master, every byte the child wrote is on stdout (no call of the loop
\* having failed or written short).
C20_OutputDrainedOnChildExit ==
  (pc = "L97" /\ master_fd = "closed" /\ ~ioFault) => out = childWrote
====
